---- MODULE Spec2Model ----
(***************************************************************************)
(* leakyvec: a std::vector wrapper that leaks the vector's memory block as *)
(* a (pointer, size, capacity, allocator) tuple and rebuilds a vector from *)
(* such a tuple by writing the three control fields of the vector through  *)
(* computed word offsets.                                                  *)
(*                                                                         *)
(* A vector object is modelled as its storage: a sequence of pointer-sized *)
(* words, the embedded allocator first (when it is stored), then _M_start, *)
(* _M_finish and _M_end_of_storage.  Pointers are byte addresses modulo    *)
(* PtrMod.  The std::vector side (data(), size(), capacity(), moves, the   *)
(* destructor) reads and writes the fields where libstdc++ puts them       *)
(* (RealOffset); the wrapper reads and writes them where                   *)
(* get_data_ptr_offset() says they are.                                    *)
(***************************************************************************)
EXTENDS Integers, Sequences, FiniteSets, TLC

\* ---------------------------------------------------------------- bounds
AddrBits == 7
NBases == 2
MaxCap == 2
NObj == 3

PtrMod == 2 ^ AddrBits

\* sizeof(pointer), in bytes
PointerSize == 8
\* alignment (and spacing) of the blocks the allocators hand out
BlockAlign == 16

\* sizeof(T) of the element types: a three-byte struct, int
ElemSizes == {3, 4}

Bases == {BlockAlign * (2 * b - 1) : b \in 1..NBases}
Objs == 1..NObj

\* ------------------------------------------------------- allocator types
\* std::allocator<T>: the default allocator, an empty class
StdAllocator == [name |-> "std", isDefault |-> TRUE, size |-> 1, empty |-> TRUE]
\* testing::LogAllocator<T>: a non-default allocator that is an empty class
LogAllocator == [name |-> "log", isDefault |-> FALSE, size |-> 1, empty |-> TRUE]
\* testing::MockAllocator<T>: a copyable handle on a shared mock, two words
MockAllocator == [name |-> "mock", isDefault |-> FALSE, size |-> 16, empty |-> FALSE]
\* a non-default allocator holding half a word of state
HalfAllocator == [name |-> "half", isDefault |-> FALSE, size |-> 4, empty |-> FALSE]

AllocTypes == {StdAllocator, LogAllocator, MockAllocator, HalfAllocator}

\* the word every word of an embedded allocator holds (not a block address)
AllocWord == 1

\* libstdc++: _Vector_impl derives from the allocator and then from
\* _Vector_impl_data, so an empty allocator takes no room and any other one
\* takes its size rounded up to the alignment of a pointer.  In words.
RealOffset(a) == IF a.empty THEN 0 ELSE (a.size + PointerSize - 1) \div PointerSize

\* sizeof(inner), in bytes
SizeofInner(a) == (RealOffset(a) + 3) * PointerSize

\* the static_assert of the get_data_ptr_offset() overload selected for a
StaticAssertHolds(a) ==
    IF a.isDefault
    THEN SizeofInner(a) = 3 * PointerSize
    ELSE SizeofInner(a) = a.size + 3 * PointerSize

get_data_ptr_offset_Zero(a) == 0

\* get_data_ptr_offset(): the offset of the control fields, in words
get_data_ptr_offset(a) ==
    IF a.isDefault THEN 0 ELSE a.size \div PointerSize

VARIABLES
    elemSize,   \* sizeof(T)
    alloc,      \* the allocator type Alloc
    debug,      \* TRUE when NDEBUG is not defined
    obj,        \* the vector-holding objects: kind and storage words
    parts,      \* the tuple the caller holds (from leak()), or NoParts
    log,        \* the allocate/deallocate calls the allocator has seen
    heap,       \* the blocks allocated and not yet deallocated
    used,       \* how often parts was reconstructed from / manually freed
    original,   \* the wrapper leaked and the pointers the caller read before
    lastOp,     \* the operation that just completed, and its field writes
    status      \* "running"; "aborted" once a debug assertion failed;
                \* "undefined" once a deallocate call was not defined;
                \* "misused" once the caller used parts a second time

vars == <<elemSize, alloc, debug, obj, parts, log, heap, used, original, lastOp, status>>

NoParts == [ptr |-> 0, size |-> 0, capacity |-> 0, allocator |-> "", valid |-> FALSE]
NoOriginal ==
    [obj |-> 0, start |-> 0, finish |-> 0, eos |-> 0, capacity |-> 0,
     intact |-> FALSE, shrunk |-> FALSE, valid |-> FALSE]
None == [kind |-> "none", mem |-> <<>>]
Dead == [kind |-> "dead", mem |-> <<>>]
Live(i) == obj[i].kind \notin {"none", "dead"}

\* ------------------------------------------------ std::vector (libstdc++)
Ptr(x) == x % PtrMod

AllocWords(a) == [w \in 1..RealOffset(a) |-> AllocWord]

\* std::vector<T, Alloc>(alloc): no block
EmptyVector == AllocWords(alloc) \o <<0, 0, 0>>

MakeVector(start, finish, eos) == AllocWords(alloc) \o <<start, finish, eos>>

\* _M_start, _M_finish, _M_end_of_storage
M_start(v) == v[RealOffset(alloc) + 1]
M_finish(v) == v[RealOffset(alloc) + 2]
M_end_of_storage(v) == v[RealOffset(alloc) + 3]

\* the difference of two pointers as a signed number of bytes
SignedDiff(a, b) ==
    LET d == (a - b) % PtrMod
    IN IF d >= PtrMod \div 2 THEN d - PtrMod ELSE d

\* p - q on T* is defined only for a whole number of elements
ExactDiff(a, b) == SignedDiff(a, b) % elemSize = 0

\* size_type(p - q)
ElemDiff(a, b) == (SignedDiff(a, b) \div elemSize) % PtrMod

data(v) == M_start(v)
size(v) == ElemDiff(M_finish(v), M_start(v))
capacity(v) == ElemDiff(M_end_of_storage(v), M_start(v))
SizeDefined(v) == ExactDiff(M_finish(v), M_start(v))
CapacityDefined(v) == ExactDiff(M_end_of_storage(v), M_start(v))

\* pointer + n on T*
PtrAdd(p, n) == Ptr(p + n * elemSize)

MovedFrom_Keep(v) == v

\* the state a vector is left in by a move from it
MovedFrom(v) == EmptyVector

\* ------------------------------------------------------------- allocator
Allocated == {log[k].ptr : k \in {x \in 1..Len(log) : log[x].op = "allocate"}}
FreeBases == Bases \ Allocated
\* allocate(n) hands out the lowest block not handed out before
NextBase(p) == p \in FreeBases /\ \A q \in FreeBases : p <= q

LogAllocate(l, p, n) == Append(l, [op |-> "allocate", ptr |-> p, n |-> n])
LogDeallocate(l, p, n) == Append(l, [op |-> "deallocate", ptr |-> p, n |-> n])

DestroyLog_Always(l, v) == LogDeallocate(l, M_start(v), capacity(v))

\* ~vector(): _M_deallocate(_M_start, _M_end_of_storage - _M_start), which
\* calls the allocator only for a non-null pointer
DestroyLog(l, v) ==
    IF M_start(v) # 0 THEN LogDeallocate(l, M_start(v), capacity(v)) ELSE l

DestroyHeap(h, v) == IF M_start(v) # 0 THEN h \ {M_start(v)} ELSE h

\* deallocate(p, n) is defined for a block that allocate(n) returned as p and
\* that was not given back since
ValidDeallocate(l, h, p, n) ==
    /\ p \in h
    /\ \E k \in 1..Len(l) : l[k] = [op |-> "allocate", ptr |-> p, n |-> n]

\* the status after a vector with storage v gave its block back: nothing is
\* known of the program once it made a deallocate call that is not defined
DestroyStatus(l, h, v) ==
    IF M_start(v) = 0 \/ ValidDeallocate(l, h, M_start(v), capacity(v))
    THEN "running" ELSE "undefined"

WithFields(v, start, finish, eos) ==
    [v EXCEPT ![RealOffset(alloc) + 1] = start,
              ![RealOffset(alloc) + 2] = finish,
              ![RealOffset(alloc) + 3] = eos]

\* ------------------------------------------------------ detail::VecWrapper
\* *(reinterpret_cast<pointer*>(&inner) + get_data_ptr_offset() + k)
FieldIndex(k) == get_data_ptr_offset(alloc) + k + 1
RawField(v, k) == v[FieldIndex(k)]

get_data_start(v) == data(v)
get_data_end(v) == PtrAdd(get_data_start(v), size(v))
get_capacity_end(v) == PtrAdd(get_data_start(v), capacity(v))

\* the outcomes of LEAKY_DEBUG_ASSERT(cond): cond itself when evaluating it
\* is defined, either outcome when it subtracts pointers that are not a
\* whole number of elements apart
AssertOutcomes(defined, cond) == IF defined THEN {cond} ELSE BOOLEAN

\* the assertion of get_data_start_ptr / get_data_end_ptr /
\* get_capacity_end_ptr, which each setter calls first
PreAssert(v, c) ==
    CASE c.f = "start" -> AssertOutcomes(TRUE, get_data_start(v) = RawField(v, 0))
      [] c.f = "size" -> AssertOutcomes(SizeDefined(v), get_data_end(v) = RawField(v, 1))
      [] c.f = "capacity" ->
            AssertOutcomes(CapacityDefined(v), get_capacity_end(v) = RawField(v, 2))

unsafe_set_data_start(v, new_start) == [v EXCEPT ![FieldIndex(0)] = new_start]

unsafe_set_size(v, new_size) ==
    [v EXCEPT ![FieldIndex(1)] = PtrAdd(get_data_start(v), new_size)]

unsafe_set_capacity_Bytes(v, new_capacity) ==
    [v EXCEPT ![FieldIndex(2)] = Ptr(get_data_start(v) + new_capacity)]

unsafe_set_capacity(v, new_capacity) ==
    [v EXCEPT ![FieldIndex(2)] = PtrAdd(get_data_start(v), new_capacity)]

\* the field write of a setter call c = [f, arg]
ApplySetter(v, c) ==
    CASE c.f = "start" -> unsafe_set_data_start(v, c.arg)
      [] c.f = "size" -> unsafe_set_size(v, c.arg)
      [] c.f = "capacity" -> unsafe_set_capacity(v, c.arg)

\* the assertion each setter ends with
PostAssert(v, c) ==
    CASE c.f = "start" -> AssertOutcomes(TRUE, data(v) = c.arg)
      [] c.f = "size" -> AssertOutcomes(SizeDefined(v), size(v) = c.arg)
      [] c.f = "capacity" -> AssertOutcomes(CapacityDefined(v), capacity(v) = c.arg)

\* the field a setter writes, and the value it now holds
WriteOf(v, c) ==
    CASE c.f = "start" -> [field |-> "data_start", value |-> RawField(v, 0)]
      [] c.f = "size" -> [field |-> "data_end", value |-> RawField(v, 1)]
      [] c.f = "capacity" -> [field |-> "capacity_end", value |-> RawField(v, 2)]

\* Run the setter calls in order.  The result is the set of outcomes: the
\* storage, whether every assertion passed (always, in a release build) and
\* the field writes done.  A failed assertion aborts the program where it is.
RECURSIVE RunSetters(_, _, _)
RunSetters(v, calls, writes) ==
    IF calls = <<>>
    THEN {[mem |-> v, ok |-> TRUE, writes |-> writes]}
    ELSE LET c == Head(calls)
             w == ApplySetter(v, c)
             ws == Append(writes, WriteOf(w, c))
         IN (IF debug /\ FALSE \in PreAssert(v, c)
             THEN {[mem |-> v, ok |-> FALSE, writes |-> writes]} ELSE {})
            \cup
            (IF debug /\ TRUE \in PreAssert(v, c) /\ FALSE \in PostAssert(w, c)
             THEN {[mem |-> w, ok |-> FALSE, writes |-> ws]} ELSE {})
            \cup
            (IF ~debug \/ (TRUE \in PreAssert(v, c) /\ TRUE \in PostAssert(w, c))
             THEN RunSetters(w, Tail(calls), ws) ELSE {})

Call(f, arg) == [f |-> f, arg |-> arg]

LeakCalls_KeepStart == <<Call("size", 0), Call("capacity", 0)>>

LeakCalls_StartLast == <<Call("capacity", 0), Call("size", 0), Call("start", 0)>>

\* leak_into_parts(): the three setter calls that neutralize the wrapper
LeakCalls == <<Call("start", 0), Call("size", 0), Call("capacity", 0)>>

LeakTuple_Swapped(v) ==
    [ptr |-> data(v), size |-> capacity(v), capacity |-> size(v),
     allocator |-> alloc.name, valid |-> TRUE]

\* leak_into_parts(): the tuple made before the wrapper is neutralized
LeakTuple(v) ==
    [ptr |-> data(v), size |-> size(v), capacity |-> capacity(v),
     allocator |-> alloc.name, valid |-> TRUE]

FromPartsCalls_SizeFirst(t) ==
    <<Call("size", t.size), Call("start", t.ptr), Call("capacity", t.capacity)>>

FromPartsCalls_SizeAsCapacity(t) ==
    <<Call("start", t.ptr), Call("size", t.size), Call("capacity", t.size)>>

\* unsafe_from_parts(): the three setter calls on the empty vector
FromPartsCalls(t) ==
    <<Call("start", t.ptr), Call("size", t.size), Call("capacity", t.capacity)>>

StatusOf(r) == IF r.ok THEN "running" ELSE "aborted"

\* The caller is to use a tuple once, for one reconstruction or for one manual
\* deallocation.  A run is followed up to a second use and not beyond it.
UseStatus(s) ==
    IF s = "running" /\ used.rebuilt + used.freed >= 1 THEN "misused" ELSE s

Op(name, target, arg, writes) ==
    [op |-> name, obj |-> target, arg |-> arg, writes |-> writes]

\* ------------------------------------------------------------------ Init
\* A build is an element type, an allocator type and NDEBUG defined or not.
\* The builds checked pair every element size with every allocator type, and
\* each of them with a debug and with a release build.
Builds ==
    {b \in [elemSize : ElemSizes, alloc : AllocTypes, debug : BOOLEAN] :
        b.debug = ((b.elemSize = 3) = b.alloc.isDefault)}

\* An allocator type whose static_assert fails does not compile.
Init ==
    /\ \E b \in {x \in Builds : StaticAssertHolds(x.alloc)} :
          /\ elemSize = b.elemSize
          /\ alloc = b.alloc
          /\ debug = b.debug
    /\ obj = [i \in Objs |-> None]
    /\ parts = NoParts
    /\ log = <<>>
    /\ heap = {}
    /\ used = [rebuilt |-> 0, freed |-> 0]
    /\ original = NoOriginal
    /\ lastOp = Op("init", 0, 0, <<>>)
    /\ status = "running"

Config == <<elemSize, alloc, debug>>

\* The objects are the automatic variables of the caller: they are numbered
\* in the order of their construction and destroyed in the reverse order.
FirstFree(i) == obj[i].kind = "none" /\ \A k \in 1..(i - 1) : obj[k].kind # "none"
Last(i) == Live(i) /\ \A k \in (i + 1)..NObj : ~Live(k)

\* the pointers and the capacity a caller reads through the getters of the
\* wrapper i; intact until the data-start of that wrapper is written
Snapshot(i, intact) ==
    LET v == obj[i].mem
    IN [obj |-> i, start |-> get_data_start(v), finish |-> get_data_end(v),
        eos |-> get_capacity_end(v), capacity |-> capacity(v),
        intact |-> intact, shrunk |-> FALSE, valid |-> TRUE]

\* ------------------------------------------------- std::vector operations
\* std::vector<T, Alloc>(n, alloc), block at p: the vector the caller makes,
\* the first object of the run
NewVector(i, n, p) ==
    /\ status = "running"
    /\ i = 1
    /\ FirstFree(i)
    /\ IF n = 0
       THEN /\ p = 0
            /\ obj' = [obj EXCEPT ![i] = [kind |-> "vector", mem |-> EmptyVector]]
            /\ UNCHANGED <<log, heap>>
       ELSE /\ NextBase(p)
            /\ obj' = [obj EXCEPT ![i] =
                   [kind |-> "vector", mem |-> MakeVector(p, PtrAdd(p, n), PtrAdd(p, n))]]
            /\ log' = LogAllocate(log, p, n)
            /\ heap' = heap \cup {p}
    /\ lastOp' = Op("vector", 0, 0, <<>>)
    /\ UNCHANGED <<Config, parts, used, original, status>>

\* v.reserve(n) with n > v.capacity(), on the vector the caller made, before
\* it is wrapped: allocate the new block, then give the old one back
Reserve(i, n, p) ==
    /\ status = "running"
    /\ i = 1
    /\ obj[i].kind = "vector"
    /\ CapacityDefined(obj[i].mem) /\ SizeDefined(obj[i].mem)
    /\ n > capacity(obj[i].mem)
    /\ NextBase(p)
    /\ LET v == obj[i].mem
       IN /\ obj' = [obj EXCEPT ![i].mem = WithFields(v, p, PtrAdd(p, size(v)), PtrAdd(p, n))]
          /\ log' = DestroyLog(LogAllocate(log, p, n), v)
          /\ heap' = DestroyHeap(heap \cup {p}, v)
          /\ status' = DestroyStatus(log, heap, v)
    /\ lastOp' = Op("reserve", 0, 0, <<>>)
    /\ UNCHANGED <<Config, parts, used, original>>

MoveInto_Copy(from, to, kind, name) ==
    /\ status = "running"
    /\ from # to
    /\ Live(from)
    /\ FirstFree(to)
    /\ obj' = [obj EXCEPT ![to] = [kind |-> kind, mem |-> obj[from].mem]]
    /\ lastOp' = Op(name, to, from, <<>>)
    /\ UNCHANGED <<Config, parts, log, heap, used, original, status>>

\* move construction of the vector inside the new object `to` from the one
\* inside `from`: the fields go over and `from` is left empty
MoveInto(from, to, kind, name) ==
    /\ status = "running"
    /\ from # to
    /\ Live(from)
    /\ FirstFree(to)
    /\ obj' = [obj EXCEPT ![to] = [kind |-> kind, mem |-> obj[from].mem],
                          ![from].mem = MovedFrom(obj[from].mem)]
    /\ lastOp' = Op(name, to, from, <<>>)
    /\ UNCHANGED <<Config, parts, log, heap, used, original, status>>

\* ~vector() / ~Vec() / ~VecWrapper()
Destroy(i) ==
    /\ status = "running"
    /\ Last(i)
    /\ CapacityDefined(obj[i].mem)
    /\ obj' = [obj EXCEPT ![i] = Dead]
    /\ log' = DestroyLog(log, obj[i].mem)
    /\ heap' = DestroyHeap(heap, obj[i].mem)
    /\ status' = DestroyStatus(log, heap, obj[i].mem)
    /\ lastOp' = Op("destroy", i, 0, <<>>)
    /\ UNCHANGED <<Config, parts, used, original>>

\* ---------------------------------------------------------------- leaky::Vec
\* The object i becomes kind{std::move(vec)} of the vector vec it was: the
\* vector inside the wrapper takes the fields, and vec, which is not used
\* again, is destroyed after it was moved from.
Wrap(i, kind) ==
    /\ status = "running"
    /\ obj[i].kind = "vector"
    /\ obj' = [obj EXCEPT ![i].kind = kind]
    /\ log' = DestroyLog(log, MovedFrom(obj[i].mem))
    /\ heap' = DestroyHeap(heap, MovedFrom(obj[i].mem))
    /\ status' = DestroyStatus(log, heap, MovedFrom(obj[i].mem))
    /\ lastOp' = Op(kind, 0, 0, <<>>)

\* Vec(std::vector<T, Alloc>&& vec)
VecFromVector(i) == Wrap(i, "Vec") /\ UNCHANGED <<Config, parts, used, original>>

\* Vec(Vec&& other)
VecMove(j, k) == obj[j].kind = "Vec" /\ MoveInto(j, k, "Vec", "Vec_move")

\* take(): return std::move(m_inner.inner), into the new vector i
take(j, i) == obj[j].kind = "Vec" /\ MoveInto(j, i, "vector", "take")

\* operator=(Vec&& other): the vector of this (j) gives its block back and
\* takes over the fields of other (k)
MoveAssign(j, k) ==
    /\ status = "running"
    /\ j # k
    /\ obj[j].kind = "Vec" /\ obj[k].kind = "Vec"
    /\ CapacityDefined(obj[j].mem)
    /\ obj' = [obj EXCEPT ![j].mem = obj[k].mem, ![k].mem = MovedFrom(obj[k].mem)]
    /\ log' = DestroyLog(log, obj[j].mem)
    /\ heap' = DestroyHeap(heap, obj[j].mem)
    /\ status' = DestroyStatus(log, heap, obj[j].mem)
    /\ lastOp' = Op("move_assign", 0, 0, <<>>)
    /\ UNCHANGED <<Config, parts, used, original>>

\* Vec::leak(): m_inner.leak_into_parts() on the Vec j; the caller keeps the
\* tuple in parts and has read the three pointers before the call
leak(j) ==
    /\ status = "running"
    /\ obj[j].kind = "Vec"
    /\ ~parts.valid
    /\ SizeDefined(obj[j].mem) /\ CapacityDefined(obj[j].mem)
    /\ \E r \in RunSetters(obj[j].mem, LeakCalls, <<>>) :
          /\ obj' = [obj EXCEPT ![j].mem = r.mem]
          /\ status' = StatusOf(r)
          /\ lastOp' = Op("leak", j, 0, r.writes)
    /\ parts' = LeakTuple(obj[j].mem)
    /\ original' = Snapshot(j, FALSE)
    /\ UNCHANGED <<Config, log, heap, used>>

\* Vec::from_parts(parts): unsafe_from_parts(parts) moved into the new Vec j.
\* The temporaries (the empty vector moved into the wrapper, the wrapper
\* moved into the Vec) are destroyed after they were moved from.
from_parts(j) ==
    /\ status = "running"
    /\ FirstFree(j)
    /\ parts.valid
    /\ \E r \in RunSetters(EmptyVector, FromPartsCalls(parts), <<>>) :
          /\ obj' = [obj EXCEPT ![j] = [kind |-> "Vec", mem |-> r.mem]]
          /\ status' = UseStatus(StatusOf(r))
          /\ lastOp' = Op("from_parts", j, 0, r.writes)
          /\ log' = IF r.ok
                    THEN DestroyLog(DestroyLog(log, MovedFrom(EmptyVector)), MovedFrom(r.mem))
                    ELSE log
    /\ used' = [used EXCEPT !.rebuilt = @ + 1]
    /\ UNCHANGED <<Config, parts, heap, original>>

\* auto [data, size, capacity, allocator] = parts;
\* allocator.deallocate(data, capacity);
ManualFree ==
    /\ status = "running"
    /\ parts.valid /\ parts.ptr # 0
    /\ log' = LogDeallocate(log, parts.ptr, parts.capacity)
    /\ heap' = heap \ {parts.ptr}
    /\ status' = UseStatus(IF ValidDeallocate(log, heap, parts.ptr, parts.capacity)
                            THEN "running" ELSE "undefined")
    /\ used' = [used EXCEPT !.freed = @ + 1]
    /\ lastOp' = Op("deallocate", 0, 0, <<>>)
    /\ UNCHANGED <<Config, obj, parts, original>>

Next ==
    \/ \E i \in Objs, n \in 0..MaxCap, p \in Bases \cup {0} : NewVector(i, n, p)
    \/ \E i \in Objs, n \in 1..MaxCap, p \in Bases : Reserve(i, n, p)
    \/ \E i \in Objs : VecFromVector(i)
    \/ \E j, i \in Objs : take(j, i)
    \/ \E j \in Objs : leak(j)
    \/ \E j \in Objs : from_parts(j)
    \/ ManualFree
    \/ \E i \in Objs : Destroy(i)

Spec == Init /\ [][Next]_vars

\* ------------------------------------------------- Vec moved and assigned
NextMove ==
    \/ Next
    \/ \E j, k \in Objs : VecMove(j, k)
    \/ \E j, k \in Objs : MoveAssign(j, k)

SpecMove == Init /\ [][NextMove]_vars

\* ------------------------------------------- the wrapper that was leaked
\* j is the Vec leak() was called on
Leaked(j) == original.valid /\ j = original.obj /\ obj[j].kind = "Vec"

\* vec.as_mut().push_back(x) on the leaked Vec while it holds no block: the
\* vector allocates a block for one element and constructs x in it
as_mut_push_back(j, p) ==
    /\ status = "running"
    /\ Leaked(j)
    /\ M_start(obj[j].mem) = 0 /\ M_end_of_storage(obj[j].mem) = 0
    /\ NextBase(p)
    /\ obj' = [obj EXCEPT ![j].mem = WithFields(@, p, PtrAdd(p, 1), PtrAdd(p, 1))]
    /\ log' = LogAllocate(log, p, 1)
    /\ heap' = heap \cup {p}
    /\ lastOp' = Op("as_mut", 0, 0, <<>>)
    /\ UNCHANGED <<Config, parts, used, original, status>>

\* The operations a caller applies to a Vec it has leaked, after making,
\* wrapping and leaking it: take() and moves of the leaked Vec, move
\* assignments from and to it, growth through as_mut(), a reconstruction
\* from the tuple, destruction.
NextLeaked ==
    \/ \E i \in Objs, n \in 0..MaxCap, p \in Bases \cup {0} : NewVector(i, n, p)
    \/ \E i \in Objs : VecFromVector(i)
    \/ \E j \in Objs : leak(j)
    \/ \E j \in Objs : from_parts(j)
    \/ \E j, i \in Objs : Leaked(j) /\ take(j, i)
    \/ \E j, k \in Objs : Leaked(j) /\ VecMove(j, k)
    \/ \E j, k \in Objs : (Leaked(j) \/ Leaked(k)) /\ MoveAssign(j, k)
    \/ \E j \in Objs, p \in Bases : as_mut_push_back(j, p)
    \/ \E i \in Objs : Destroy(i)

SpecLeaked == Init /\ [][NextLeaked]_vars

\* ------------------------------------------ tuples the caller makes itself
\* the pointers a caller puts into a tuple: a block address or null
PartsPtrs == Bases \cup {0}

\* the arguments of unsafe_from_parts(data_start, size, capacity, alloc),
\* chosen by the caller with size <= capacity and not obtained from leak()
ComposeParts(p, l, c) ==
    /\ status = "running"
    /\ ~parts.valid
    /\ l <= c
    /\ parts' = [ptr |-> p, size |-> l, capacity |-> c,
                 allocator |-> alloc.name, valid |-> TRUE]
    /\ lastOp' = Op("parts", 0, 0, <<>>)
    /\ UNCHANGED <<Config, obj, log, heap, used, original, status>>

NextParts ==
    \/ \E p \in PartsPtrs, l, c \in 0..MaxCap : ComposeParts(p, l, c)
    \/ \E j \in Objs : from_parts(j)
    \/ \E i \in Objs : Destroy(i)

SpecParts == Init /\ [][NextParts]_vars

\* ------------------------------------------ detail::VecWrapper used directly
\* VecWrapper<T, Alloc>{std::move(v)}; the caller then reads the pointers
\* and the capacity of the wrapper
WrapVector(i) ==
    /\ Wrap(i, "VecWrapper")
    /\ ~original.valid
    /\ original' = Snapshot(i, TRUE)
    /\ UNCHANGED <<Config, parts, used>>

\* a setter called on the wrapper j, the one whose pointers the caller read
Setter(j, c, name) ==
    /\ status = "running"
    /\ obj[j].kind = "VecWrapper"
    /\ original.valid
    /\ \E r \in RunSetters(obj[j].mem, <<c>>, <<>>) :
          /\ obj' = [obj EXCEPT ![j].mem = r.mem]
          /\ status' = StatusOf(r)
          /\ lastOp' = Op(name, j, c.arg, r.writes)
    /\ original' = [original EXCEPT
                        !.intact = @ /\ c.f # "start",
                        !.shrunk = @ \/ (c.f = "capacity" /\ c.arg < original.capacity)]
    /\ UNCHANGED <<Config, parts, log, heap, used>>

\* wrapper.unsafe_set_data_start(new_start)
set_data_start(j, new_start) == Setter(j, Call("start", new_start), "unsafe_set_data_start")
\* wrapper.unsafe_set_size(new_size)
set_size(j, new_size) == Setter(j, Call("size", new_size), "unsafe_set_size")
\* wrapper.unsafe_set_capacity(new_capacity)
set_capacity(j, new_capacity) ==
    Setter(j, Call("capacity", new_capacity), "unsafe_set_capacity")

\* the pointers a caller passes to unsafe_set_data_start: null, the start it
\* read from the wrapper, or one element past it
StartArgs == {0, original.start, PtrAdd(original.start, 1)}

NextWrapper ==
    \/ \E i \in Objs, n \in 0..MaxCap, p \in Bases \cup {0} : NewVector(i, n, p)
    \/ \E i \in Objs, n \in 1..MaxCap, p \in Bases : Reserve(i, n, p)
    \/ \E i \in Objs : WrapVector(i)
    \/ \E j \in Objs, p \in StartArgs : set_data_start(j, p)
    \/ \E j \in Objs, n \in 0..MaxCap : set_size(j, n)
    \/ \E j \in Objs, n \in 0..MaxCap : set_capacity(j, n)
    \/ \E i \in Objs : Destroy(i)

SpecWrapper == Init /\ [][NextWrapper]_vars

TypeOK ==
    /\ elemSize \in ElemSizes
    /\ status \in {"running", "aborted", "undefined", "misused"}
    /\ \A i \in Objs : obj[i].kind \in {"none", "dead", "vector", "Vec", "VecWrapper"}

\* ------------------------------------------------------------ properties
Running == status = "running"
Uses == used.rebuilt + used.freed
LiveObjs == {i \in Objs : Live(i)}
AllDestroyed == \A i \in Objs : obj[i].kind = "dead"

Deallocations(p) == {k \in 1..Len(log) : log[k].op = "deallocate" /\ log[k].ptr = p}
Allocations == {k \in 1..Len(log) : log[k].op = "allocate"}
\* the deallocate calls that give back the block of the allocate call k
Matching(k) ==
    {d \in 1..Len(log) : log[d] = [op |-> "deallocate", ptr |-> log[k].ptr, n |-> log[k].n]}

\* the object the last operation acted on
Target == obj[lastOp.obj].mem

\* C1: after leak() and then from_parts on the returned tuple, the getters
\* of the new wrapper return the data-start, data-end and capacity-end the
\* caller read before leak().
C1_RoundTrip ==
    (lastOp.op = "from_parts" /\ Running) =>
        /\ get_data_start(Target) = original.start
        /\ get_data_end(Target) = original.finish
        /\ get_capacity_end(Target) = original.eos
        /\ RawField(Target, 0) = original.start
        /\ RawField(Target, 1) = original.finish
        /\ RawField(Target, 2) = original.eos

C1_Witness ==
    /\ lastOp.op = "from_parts" /\ Running
    /\ original.start # 0
    /\ original.start < original.finish /\ original.finish < original.eos

\* C2: neither leak() nor from_parts makes the allocator see a call: the
\* call log after the step is the call log before it.
C2_NoAllocatorCalls ==
    [][lastOp'.op \in {"leak", "from_parts"} => log' = log]_vars

C2_Witness ==
    /\ lastOp.op = "from_parts" /\ Running
    /\ parts.ptr # 0
    /\ Len(log) > 0
    /\ \A k \in 1..Len(log) : log[k].op = "allocate"

\* C3: when leak() has returned, the vector of the wrapper is in the empty
\* state: the three control fields are null, so data() is null and size()
\* and capacity() are 0.
C3_LeakEmpties ==
    (lastOp.op = "leak" /\ Running) =>
        /\ M_start(Target) = 0 /\ M_finish(Target) = 0 /\ M_end_of_storage(Target) = 0
        /\ data(Target) = 0 /\ size(Target) = 0 /\ capacity(Target) = 0

C3_Witness ==
    /\ lastOp.op = "leak" /\ Running
    /\ parts.ptr # 0 /\ parts.size > 0 /\ parts.capacity > parts.size

\* C4: the tuple leak() returns holds the data pointer, the size and the
\* capacity the wrapper had before the call and the allocator of the vector;
\* the pointer and the capacity are those of the allocate call that made
\* the block.
C4_LeakTuple ==
    /\ [][lastOp'.op = "leak" =>
            /\ parts'.ptr = data(obj[lastOp'.obj].mem)
            /\ parts'.size = size(obj[lastOp'.obj].mem)
            /\ parts'.capacity = capacity(obj[lastOp'.obj].mem)
            /\ parts'.allocator = alloc.name
            /\ parts'.valid]_vars
    /\ []((parts.valid /\ parts.ptr # 0) =>
            /\ parts.size <= parts.capacity
            /\ \E k \in Allocations : log[k].ptr = parts.ptr /\ log[k].n = parts.capacity)

C4_Witness ==
    /\ lastOp.op = "leak" /\ Running
    /\ parts.ptr # 0 /\ parts.size = 1 /\ parts.capacity = 2

\* C5: while the tuple of a leaked block was neither reconstructed from nor
\* manually freed, the block is never deallocated, whatever is destroyed:
\* destroying the leaked wrapper deallocates nothing.
C5_LeakedNeverFreed ==
    (parts.valid /\ parts.ptr # 0 /\ Uses = 0 /\ status # "aborted") =>
        /\ Deallocations(parts.ptr) = {}
        /\ parts.ptr \in heap
        /\ Running

\* the leaked wrapper and everything else destroyed, after a buffer grown
\* from one block to a larger one
C5_Witness ==
    /\ parts.valid /\ parts.ptr # 0 /\ Uses = 0 /\ Running
    /\ AllDestroyed
    /\ Len(log) = 3
    /\ Cardinality(Allocations) = 2

\* C6: when the tuple was used exactly once (one manual deallocate or one
\* from_parts), no block is deallocated twice, and once every object is
\* destroyed every allocate call has exactly one deallocate call of the same
\* pointer and capacity.
C6_FreedExactlyOnce ==
    (parts.valid /\ Uses = 1 /\ status # "aborted") =>
        /\ Running
        /\ \A k \in Allocations : Cardinality(Deallocations(log[k].ptr)) <= 1
        /\ AllDestroyed =>
              \A k \in Allocations :
                 /\ Cardinality(Matching(k)) = 1
                 /\ Cardinality(Deallocations(log[k].ptr)) = 1
                 /\ log[k].ptr \notin heap

C6_Witness ==
    /\ parts.valid /\ parts.ptr # 0 /\ Uses = 1 /\ used.rebuilt = 1 /\ Running
    /\ AllDestroyed
    /\ Cardinality(Allocations) = 2
    /\ \E i \in Objs : lastOp.op = "destroy"

C6_WitnessManual ==
    /\ parts.valid /\ parts.ptr # 0 /\ used.freed = 1 /\ used.rebuilt = 0 /\ Running
    /\ AllDestroyed

\* no two live objects hold the same non-null data pointer
NoSharedBlock ==
    \A i, j \in LiveObjs :
        (i # j /\ M_start(obj[i].mem) # 0) => M_start(obj[i].mem) # M_start(obj[j].mem)

\* C7 as stated: from_parts consumes the tuple, so no sequence of operations
\* leaves two buffers owning the same memory block.
C7_Original == status \in {"running", "misused"} => NoSharedBlock

\* C7 amended: from_parts leaves the caller's tuple as it was; while the
\* caller used the tuple at most once, no two buffers own the same block,
\* and before its first use no buffer owns the block of the tuple.
C7_Amended ==
    /\ [][lastOp'.op = "from_parts" => parts' = parts /\ parts'.valid]_vars
    /\ []((Running /\ Uses <= 1) => NoSharedBlock)
    /\ []((Running /\ parts.valid /\ parts.ptr # 0 /\ Uses = 0) =>
            \A i \in LiveObjs : M_start(obj[i].mem) # parts.ptr)

C7_Witness ==
    /\ Running /\ Uses = 1 /\ used.rebuilt = 1 /\ parts.ptr # 0
    /\ lastOp.op = "from_parts"
    /\ M_start(Target) = parts.ptr
    /\ \E i \in LiveObjs \ {lastOp.obj} : obj[i].kind = "Vec" /\ M_start(obj[i].mem) = 0

\* C8: take() returns a vector with the data pointer, the size and the
\* capacity the wrapper held and leaves the vector of the wrapper empty;
\* destroying an object whose vector is empty makes no deallocate call.
C8_Take ==
    /\ [][lastOp'.op = "take" =>
            /\ obj'[lastOp'.obj].kind = "vector"
            /\ M_start(obj'[lastOp'.obj].mem) = M_start(obj[lastOp'.arg].mem)
            /\ M_finish(obj'[lastOp'.obj].mem) = M_finish(obj[lastOp'.arg].mem)
            /\ M_end_of_storage(obj'[lastOp'.obj].mem) = M_end_of_storage(obj[lastOp'.arg].mem)
            /\ M_start(obj'[lastOp'.arg].mem) = 0
            /\ M_finish(obj'[lastOp'.arg].mem) = 0
            /\ M_end_of_storage(obj'[lastOp'.arg].mem) = 0
            /\ log' = log]_vars
    /\ [][(lastOp'.op = "destroy" /\ M_start(obj[lastOp'.obj].mem) = 0) => log' = log]_vars
    /\ []((lastOp.op = "take" /\ Running /\ Uses <= 1) =>
            \A i \in LiveObjs \ {lastOp.obj} :
                M_start(Target) # 0 => M_start(obj[i].mem) # M_start(Target))

C8_Witness ==
    /\ lastOp.op = "take" /\ Running
    /\ used.rebuilt = 1
    /\ M_start(Target) = parts.ptr /\ parts.ptr # 0
    /\ size(Target) = 1 /\ capacity(Target) = 2

\* C9: the offset of the control fields is 0 for the default allocator and
\* sizeof(Alloc) / sizeof(pointer) words for any other one, and the words of
\* the vector at offset + 0, + 1 and + 2 are data(), data() + size() and
\* data() + capacity().
C9_Layout ==
    /\ alloc.isDefault => get_data_ptr_offset(alloc) = 0
    /\ ~alloc.isDefault => get_data_ptr_offset(alloc) * PointerSize = alloc.size
    /\ \A i \in LiveObjs :
          LET v == obj[i].mem
          IN /\ FieldIndex(2) = Len(v)
             /\ RawField(v, 0) = data(v)
             /\ SizeDefined(v) => RawField(v, 1) = PtrAdd(data(v), size(v))
             /\ CapacityDefined(v) => RawField(v, 2) = PtrAdd(data(v), capacity(v))

C9_Witness ==
    /\ ~alloc.isDefault
    /\ \E i \in LiveObjs :
          /\ obj[i].kind = "VecWrapper"
          /\ data(obj[i].mem) # 0
          /\ size(obj[i].mem) = 1 /\ capacity(obj[i].mem) = 2

\* C10: unsafe_set_capacity changes neither data-start nor data-end and sets
\* capacity-end to data-start + n elements; on a wrapper whose data-start was
\* not written since the caller read its pointers, setting the capacity back
\* to the original value restores the original capacity-end.
C10_SetCapacity ==
    /\ [][(lastOp'.op = "unsafe_set_capacity" /\ status' = "running") =>
            /\ M_start(obj'[lastOp'.obj].mem) = M_start(obj[lastOp'.obj].mem)
            /\ M_finish(obj'[lastOp'.obj].mem) = M_finish(obj[lastOp'.obj].mem)
            /\ M_end_of_storage(obj'[lastOp'.obj].mem)
                  = PtrAdd(M_start(obj[lastOp'.obj].mem), lastOp'.arg)]_vars
    /\ []((lastOp.op = "unsafe_set_capacity" /\ Running /\ original.valid /\ original.intact
            /\ lastOp.arg = original.capacity) =>
            /\ get_capacity_end(Target) = original.eos
            /\ M_end_of_storage(Target) = original.eos
            /\ get_data_start(Target) = original.start)

C10_Witness ==
    /\ lastOp.op = "unsafe_set_capacity" /\ Running
    /\ original.valid /\ original.intact /\ original.shrunk
    /\ lastOp.arg = original.capacity
    /\ original.start # 0 /\ original.capacity = 2
    /\ size(Target) = 1

\* the fields the last operation wrote, in the order of the writes
FieldsWritten == [k \in 1..Len(lastOp.writes) |-> lastOp.writes[k].field]

\* C11 as stated: leak() writes capacity-end first, then data-end, and
\* data-start, to null, last.
C11_Original ==
    (lastOp.op = "leak" /\ Running) =>
        FieldsWritten = <<"capacity_end", "data_end", "data_start">>

\* C11 amended: leak() writes data-start to null first, then data-end, then
\* capacity-end, each of the two derived from the data-start already null,
\* so that the three writes store null; a leak() that an assertion stopped
\* has done a prefix of these writes.
C11_Amended ==
    lastOp.op = "leak" =>
        /\ Running =>
              lastOp.writes = <<[field |-> "data_start", value |-> 0],
                                [field |-> "data_end", value |-> 0],
                                [field |-> "capacity_end", value |-> 0]>>
        /\ \A k \in 1..Len(FieldsWritten) :
              FieldsWritten[k] = <<"data_start", "data_end", "capacity_end">>[k]

C11_Witness ==
    /\ lastOp.op = "leak" /\ Running
    /\ Len(lastOp.writes) = 3
    /\ original.start # 0 /\ original.finish # original.start
    /\ original.eos # original.finish

\* C12: unsafe_from_parts starts from an empty vector with the allocator
\* given and writes data-start = pointer, then data-end = pointer + length,
\* then capacity-end = pointer + capacity; the three control fields of the
\* wrapper it returns are those values, for every tuple with length <=
\* capacity, and the allocator words are left as they were.
C12_FromParts ==
    (lastOp.op = "from_parts" /\ status \in {"running", "misused"}) =>
        /\ lastOp.writes =
              <<[field |-> "data_start", value |-> parts.ptr],
                [field |-> "data_end", value |-> PtrAdd(parts.ptr, parts.size)],
                [field |-> "capacity_end", value |-> PtrAdd(parts.ptr, parts.capacity)]>>
        /\ M_start(Target) = parts.ptr
        /\ M_finish(Target) = PtrAdd(parts.ptr, parts.size)
        /\ M_end_of_storage(Target) = PtrAdd(parts.ptr, parts.capacity)
        /\ size(Target) = parts.size /\ capacity(Target) = parts.capacity
        /\ Len(Target) = Len(EmptyVector)
        /\ \A w \in 1..RealOffset(alloc) : Target[w] = EmptyVector[w]

C12_Witness ==
    /\ lastOp.op = "from_parts" /\ Running
    /\ ~original.valid
    /\ parts.ptr # 0 /\ 0 < parts.size /\ parts.size < parts.capacity
    /\ ~alloc.isDefault

\* the storage of the wrapper leak() was called on
LeakedMem == obj[original.obj].mem

\* C13 as stated: once a wrapper is Leaked it never owns memory again,
\* whatever operation follows.
C13_Original ==
    (original.valid /\ Leaked(original.obj) /\ status \in {"running", "misused"}) =>
        M_start(LeakedMem) = 0

\* C13 amended: leak() leaves the wrapper without a block, and a Leaked
\* wrapper without a block gets one only by a move assignment to it or by
\* growing its vector through as_mut(); take(), a move from it, from_parts
\* (which makes a new wrapper) and destruction leave it without one.
C13_Amended ==
    /\ []((lastOp.op = "leak" /\ Running) =>
            Leaked(original.obj) /\ M_start(LeakedMem) = 0)
    /\ [][(/\ original.valid
           /\ Leaked(original.obj)
           /\ obj'[original.obj].kind = "Vec"
           /\ M_start(LeakedMem) = 0
           /\ M_start(obj'[original.obj].mem) # 0)
          => lastOp'.op \in {"move_assign", "as_mut"}]_vars

C13_Witness ==
    /\ Running /\ original.valid /\ Leaked(original.obj)
    /\ lastOp.op = "as_mut"
    /\ M_start(LeakedMem) # 0 /\ M_start(LeakedMem) # parts.ptr
    /\ parts.ptr # 0

C13_WitnessAssign ==
    /\ Running /\ original.valid /\ Leaked(original.obj)
    /\ lastOp.op = "move_assign"
    /\ M_start(LeakedMem) = parts.ptr /\ parts.ptr # 0

\* the Vec objects
Vecs == {i \in LiveObjs : obj[i].kind = "Vec"}

\* C14: between completed operations (construction from a vector, leak,
\* from_parts on a tuple from leak, take, move construction and assignment)
\* the vector of every Vec has data-start <= data-end <= capacity-end, and
\* its data-start is null exactly when its capacity is zero.
C14_Ordered ==
    status \in {"running", "misused"} =>
        \A i \in Vecs :
            LET v == obj[i].mem
            IN /\ M_start(v) <= M_finish(v)
               /\ M_finish(v) <= M_end_of_storage(v)
               /\ (M_start(v) = 0) <=> (capacity(v) = 0)
               /\ (M_start(v) = 0) <=> (M_end_of_storage(v) = M_start(v))

C14_Witness ==
    /\ Running /\ lastOp.op = "Vec_move"
    /\ used.rebuilt = 1
    /\ M_start(Target) = parts.ptr /\ parts.ptr # 0
    /\ M_start(Target) < M_finish(Target) /\ M_finish(Target) < M_end_of_storage(Target)
    /\ \E i \in Vecs : M_start(obj[i].mem) = 0 /\ capacity(obj[i].mem) = 0

\* C15: in a build with the assertions compiled in, where the offset is the
\* real one, no assertion fails at any step of leak() or from_parts.
C15_NoAssertionFails ==
    (debug /\ get_data_ptr_offset(alloc) = RealOffset(alloc)) => status # "aborted"

====
